---- MODULE Spec2Model ----
(***************************************************************************)
(* Model of the winkel UI toolkit: the widget tree (widgets/core.rs,       *)
(* widgets/extra.rs), its layout pass (compute), its event pass (dispatch) *)
(* and the host loop of gltests/main.rs.                                   *)
(***************************************************************************)
EXTENDS Integers, Sequences, FiniteSets, TLC

VARIABLES
    nodes,       \* the heap of widget nodes: id -> node (RefCell contents)
    root,        \* the id of the tree's root node
    computed,    \* the layout map the caller holds (HashMap<usize, ComputedWidget>)
    args,        \* per node id, the arguments of its compute call in the latest pass
    mouse_x,     \* run: last cursor position
    mouse_y,
    win_width,   \* run: current window size
    win_height,
    aborted,     \* the process panicked (unwrap on a missing layout entry)
    last,        \* the latest call and what it returned
    scenario,    \* history: how far the calls so far follow enter, press, release
                 \* on the root gesture, and the pressed invocations on the way
    counter,     \* the process-wide COUNTER the builders draw ids from
    cells        \* the State<T> handles: per handle, the node it is bound to

vars == <<nodes, root, computed, args, mouse_x, mouse_y, win_width, win_height,
          aborted, last, scenario, counter, cells>>

\* ------------------------------------------------------------------ f64
\* Coordinates are f64.  The model keeps the shape of IEEE-754 binary
\* arithmetic (round to nearest, ties to even, gradual underflow) at a
\* reduced size: a value is an integer count of 2^-FracBits, and it is a
\* float when it fits in MantBits significant bits.

MantBits == 5
FracBits == 8

RECURSIVE Pow2(_)
Pow2(n) == IF n = 0 THEN 1 ELSE 2 * Pow2(n - 1)

Unit == Pow2(FracBits)

Abs(n) == IF n < 0 THEN -n ELSE n

RECURSIVE BitLen(_)
BitLen(n) == IF n = 0 THEN 0 ELSE 1 + BitLen(n \div 2)

\* spacing of the floats in the binade that holds magnitude m
Quantum(m) == IF BitLen(m) <= MantBits THEN 1 ELSE Pow2(BitLen(m) - MantBits)

IsFloat(k) == Abs(k) % Quantum(Abs(k)) = 0

\* the float nearest to the rational n / d (d > 0), ties to even
RoundRat(n, d) ==
    LET a  == Abs(n)
        fl == a \div d
        q  == Quantum(fl)
        lo == (fl \div q) * q
        hi == lo + q
        r  == IF 2 * a < (lo + hi) * d THEN lo
              ELSE IF 2 * a > (lo + hi) * d THEN hi
              ELSE IF (lo \div q) % 2 = 0 THEN lo ELSE hi
    IN  IF n < 0 THEN -r ELSE r

\* The infinities and NaN are the values of the largest exponent; they lie
\* beyond every finite value the model computes.
Inf == Pow2(FracBits + 16)
NaN == Inf + 1
IsNaN(v) == v = NaN
IsInf(v) == v = Inf \/ v = -Inf
IsFinite(v) == ~IsNaN(v) /\ ~IsInf(v)
Sign(v) == IF v < 0 THEN -1 ELSE 1

FAdd(a, b) ==
    IF IsNaN(a) \/ IsNaN(b) THEN NaN
    ELSE IF IsInf(a) THEN (IF IsInf(b) /\ a # b THEN NaN ELSE a)
    ELSE IF IsInf(b) THEN b
    ELSE RoundRat(a + b, 1)
FSub(a, b) ==
    IF IsNaN(a) \/ IsNaN(b) THEN NaN
    ELSE IF IsInf(a) THEN (IF a = b THEN NaN ELSE a)
    ELSE IF IsInf(b) THEN -b
    ELSE RoundRat(a - b, 1)
FMul(a, b) ==
    IF IsNaN(a) \/ IsNaN(b) THEN NaN
    ELSE IF IsInf(a) \/ IsInf(b)
         THEN (IF a = 0 \/ b = 0 THEN NaN ELSE Sign(a) * Sign(b) * Inf)
    ELSE RoundRat(a * b, Unit)
\* the divisor of the model is never a negative zero
FDiv(a, b) ==
    IF IsNaN(a) \/ IsNaN(b) THEN NaN
    ELSE IF IsInf(a) THEN (IF IsInf(b) THEN NaN ELSE Sign(a) * Sign(b) * Inf)
    ELSE IF IsInf(b) THEN 0
    ELSE IF b = 0 THEN (IF a = 0 THEN NaN ELSE Sign(a) * Inf)
    ELSE RoundRat(a * Unit * Sign(b), Abs(b))
\* `n as f64` for a usize n
AsF64(n) == RoundRat(n * Unit, 1)
\* the f64 of the whole number w
F(w) == w * Unit

\* ---------------------------------------------------------------- nodes
\* The heap of widget nodes is a function from node id to node; an
\* Rc<RefCell<dyn Widget>> is the id.  A builder threads the heap and the
\* process-wide COUNTER.

NoId == -1

\* a callback slot of a MouseGesture: Option<Box<dyn Fn .. -> bool>>.
\* A closure is what it does when called: the cell it writes (with which
\* colour), whether it calls the user's pressed callback, what it returns.
NoCb == [reg |-> FALSE, ret |-> FALSE, cell |-> NoId, color |-> "NONE", pressed |-> FALSE]
Cb(ret) == [reg |-> TRUE, ret |-> ret, cell |-> NoId, color |-> "NONE", pressed |-> FALSE]
CellCb(cell, color, pressed) ==
    [reg |-> TRUE, ret |-> TRUE, cell |-> cell, color |-> color, pressed |-> pressed]

NewNode(kind) ==
    [kind |-> kind, id |-> NoId, children |-> <<>>, flex |-> <<>>, padding |-> <<0, 0, 0, 0>>,
     color |-> "NONE", border_radius |-> 0, text |-> "",
     click_callback |-> NoCb, release_callback |-> NoCb,
     enter_callback |-> NoCb, leave_callback |-> NoCb]

COUNTER == 0
NewHeap == [nodes |-> <<>>, counter |-> COUNTER, cells |-> <<>>]

\* the Rc of the next allocation: nodes are numbered as they are allocated
NextRc(b) == Cardinality(DOMAIN b.nodes)

\* an allocation that reads COUNTER and does not advance it
AllocLoad(b, node) ==
    [b EXCEPT !.nodes = (NextRc(b) :> [node EXCEPT !.id = b.counter]) @@ b.nodes]

\* Rc::new(RefCell::new(..{ id: COUNTER.fetch_add(1, SeqCst), .. }))
Alloc(b, node) ==
    [b EXCEPT !.nodes = (NextRc(b) :> [node EXCEPT !.id = b.counter]) @@ b.nodes,
              !.counter = b.counter + 1]
\* the node the last build returned
Built(b) == NextRc(b) - 1

TextBuild(b, text, color) ==
    Alloc(b, [NewNode("Text") EXCEPT !.text = text, !.color = color])

RectangleBuild(b, color, border_radius) ==
    Alloc(b, [NewNode("Rectangle") EXCEPT !.color = color, !.border_radius = border_radius])

EmptyNew(b) == Alloc(b, NewNode("Empty"))

MouseGestureBuild(b, background, border_radius, click, release, enter, leave) ==
    Alloc(b, [NewNode("MouseGesture") EXCEPT
                 !.children = <<background>>, !.border_radius = border_radius,
                 !.click_callback = click, !.release_callback = release,
                 !.enter_callback = enter, !.leave_callback = leave])

\* padding is (left, top, right, bottom)
PaddingBuild(b, child, padding) ==
    Alloc(b, [NewNode("Padding") EXCEPT !.children = <<child>>, !.padding = padding])

RowBuild(b, children, flex) ==
    Alloc(b, [NewNode("Row") EXCEPT !.children = children, !.flex = flex])

ColumnBuild(b, children, flex) ==
    Alloc(b, [NewNode("Column") EXCEPT !.children = children, !.flex = flex])

StackBuild(b, children) ==
    Alloc(b, [NewNode("Stack") EXCEPT !.children = children])

\* State<T>: a handle is unbound (NoId) from State::new() until bind
\* attaches it to a node; borrow_mut then reaches that node's fields.
StateNew(b) == [b EXCEPT !.cells = Append(@, NoId)]
\* the handle the last State::new() returned
NewState(b) == Len(b.cells)
StateBind(b, state, rc) == [b EXCEPT !.cells[state] = rc]
Bound(handles, state) == handles[state] # NoId
StateWrite(heap, cell, color) == [heap EXCEPT ![cell].color = color]

\* a build_stateful that returns the node and leaves the handle alone
RectangleBuildStatefulNoBind(b, color, border_radius, state) ==
    RectangleBuild(b, color, border_radius)

RectangleBuildStateful(b, color, border_radius, state) ==
    LET b1 == RectangleBuild(b, color, border_radius)
    IN  StateBind(b1, state, Built(b1))

TextBuildStateful(b, text, color, state) ==
    LET b1 == TextBuild(b, text, color)
    IN  StateBind(b1, state, Built(b1))

\* a button whose closures hold a cell bound to another rectangle than the
\* one placed in the stack
ButtonBuildStateCopy(b, rect_state, base_color, hover_color, active_color, border_radius, child, pressed) ==
    LET b0 == RectangleBuildStateful(b, base_color, border_radius, rect_state)
        b1 == RectangleBuild(b0, base_color, border_radius)
        b2 == StackBuild(b1, IF child = NoId THEN <<Built(b1)>> ELSE <<Built(b1), child>>)
    IN  MouseGestureBuild(b2, Built(b2), border_radius,
            CellCb(Built(b0), active_color, FALSE),
            CellCb(Built(b0), hover_color, pressed),
            CellCb(Built(b0), hover_color, FALSE),
            CellCb(Built(b0), base_color, FALSE))

\* a button whose press and release closures write each other's colour
ButtonBuildStateMixedUp(b, rect_state, base_color, hover_color, active_color, border_radius, child, pressed) ==
    LET b1 == RectangleBuildStateful(b, base_color, border_radius, rect_state)
        b2 == StackBuild(b1, IF child = NoId THEN <<Built(b1)>> ELSE <<Built(b1), child>>)
    IN  MouseGestureBuild(b2, Built(b2), border_radius,
            CellCb(Built(b1), hover_color, FALSE),
            CellCb(Built(b1), active_color, pressed),
            CellCb(Built(b1), hover_color, FALSE),
            CellCb(Built(b1), base_color, FALSE))

\* a button whose leave closure writes the hover colour
ButtonBuildStateStickyHover(b, rect_state, base_color, hover_color, active_color, border_radius, child, pressed) ==
    LET b1 == RectangleBuildStateful(b, base_color, border_radius, rect_state)
        b2 == StackBuild(b1, IF child = NoId THEN <<Built(b1)>> ELSE <<Built(b1), child>>)
    IN  MouseGestureBuild(b2, Built(b2), border_radius,
            CellCb(Built(b1), active_color, FALSE),
            CellCb(Built(b1), hover_color, pressed),
            CellCb(Built(b1), hover_color, FALSE),
            CellCb(Built(b1), hover_color, FALSE))

\* a button that calls the user's pressed callback on the press
ButtonBuildStatePressOnClick(b, rect_state, base_color, hover_color, active_color, border_radius, child, pressed) ==
    LET b1 == RectangleBuildStateful(b, base_color, border_radius, rect_state)
        b2 == StackBuild(b1, IF child = NoId THEN <<Built(b1)>> ELSE <<Built(b1), child>>)
    IN  MouseGestureBuild(b2, Built(b2), border_radius,
            CellCb(Built(b1), active_color, pressed),
            CellCb(Built(b1), hover_color, FALSE),
            CellCb(Built(b1), hover_color, FALSE),
            CellCb(Built(b1), base_color, FALSE))

\* Button::build_state: rectangle (bound to rect_state), stack of the
\* rectangle and the optional child, gesture around the stack.
\* The closures hold the handle; it is bound before they are made and they
\* are written as the node their borrow_mut reaches.
ButtonBuildState(b, rect_state, base_color, hover_color, active_color, border_radius, child, pressed) ==
    LET b1 == RectangleBuildStateful(b, base_color, border_radius, rect_state)
        c_rect_state == b1.cells[rect_state]
        rect == Built(b1)
        b2 == StackBuild(b1, IF child = NoId THEN <<rect>> ELSE <<rect, child>>)
    IN  MouseGestureBuild(b2, Built(b2), border_radius,
            CellCb(c_rect_state, active_color, FALSE),
            CellCb(c_rect_state, hover_color, pressed),
            CellCb(c_rect_state, hover_color, FALSE),
            CellCb(c_rect_state, base_color, FALSE))

\* -------------------------------------------------------------- compute
\* A layout pass threads acc = [map, args]: map is the HashMap of
\* ComputedWidget; args records, per node id, the arguments its compute
\* was called with.

NoRender == [kind |-> "None", color |-> "NONE", border_radius |-> 0, text |-> ""]

ComputedWidget(x, y, z, width, height, render) ==
    [x |-> x, y |-> y, z |-> z, width |-> width, height |-> height, render |-> render]

\* HashMap::insert
Insert(map, id, cw) == (id :> cw) @@ map

Called(acc, id, x, y, z, width, height) ==
    [acc EXCEPT !.args = Insert(acc.args, id,
        [x |-> x, y |-> y, z |-> z, width |-> width, height |-> height])]

RECURSIVE Compute(_, _, _, _, _, _, _, _)

TextCompute(heap, id, x, y, z, width, height, acc) ==
    [acc EXCEPT !.map = Insert(acc.map, id, ComputedWidget(x, y, z, width, height,
        [kind |-> "Text", color |-> heap[id].color, border_radius |-> 0,
         text |-> heap[id].text]))]

RectangleCompute(heap, id, x, y, z, width, height, acc) ==
    [acc EXCEPT !.map = Insert(acc.map, id, ComputedWidget(x, y, z, width, height,
        [kind |-> "Rectangle", color |-> heap[id].color,
         border_radius |-> heap[id].border_radius, text |-> ""]))]

\* an empty that inserts a record without a render payload
EmptyComputeInsert(heap, id, x, y, z, width, height, acc) ==
    [acc EXCEPT !.map = Insert(acc.map, id, ComputedWidget(x, y, z, width, height, NoRender))]

\* Empty::compute has an empty body
EmptyCompute(heap, id, x, y, z, width, height, acc) == acc

\* a gesture that lays out its child and inserts no record of its own
MouseGestureComputeNoRecord(heap, id, x, y, z, width, height, acc) ==
    Compute(heap, heap[id].children[1], x, y, z, width, height, acc)

MouseGestureCompute(heap, id, x, y, z, width, height, acc) ==
    LET a1 == Compute(heap, heap[id].children[1], x, y, z, width, height, acc)
    IN  [a1 EXCEPT !.map = Insert(a1.map, id,
            ComputedWidget(x, y, z, width, height, NoRender))]

\* a padding that lays out nothing below it
PaddingComputeLeaf(heap, id, x, y, z, width, height, acc) == acc

\* a padding that subtracts and does not clamp
PaddingComputeNoClamp(heap, id, x, y, z, width, height, acc) ==
    LET padding == heap[id].padding
    IN  Compute(heap, heap[id].children[1], FAdd(x, padding[1]), FAdd(y, padding[2]), z,
                FSub(FSub(width, padding[3]), padding[1]),
                FSub(FSub(height, padding[4]), padding[2]), acc)

PaddingCompute(heap, id, x, y, z, width, height, acc) ==
    LET padding == heap[id].padding
        w0 == FSub(FSub(width, padding[3]), padding[1])
        h0 == FSub(FSub(height, padding[4]), padding[2])
        w  == IF w0 < 0 THEN 0 ELSE w0
        h  == IF h0 < 0 THEN 0 ELSE h0
    IN  Compute(heap, heap[id].children[1],
                FAdd(x, padding[1]), FAdd(y, padding[2]), z, w, h, acc)

RECURSIVE Sum(_)
Sum(s) == IF s = <<>> THEN 0 ELSE Head(s) + Sum(Tail(s))

\* the for_each of Row::compute from child i on, prev_flex carried
RECURSIVE RowEach(_, _, _, _, _, _, _, _, _, _)
RowEach(heap, id, i, prev_flex, each_child_width, x, y, z, height, acc) ==
    IF i > Len(heap[id].children) THEN acc
    ELSE LET flex   == heap[id].flex[i]
             offset == FMul(AsF64(prev_flex), each_child_width)
             a1     == Compute(heap, heap[id].children[i], FAdd(x, offset), y, z,
                               FMul(each_child_width, AsF64(flex)), height, acc)
         IN  RowEach(heap, id, i + 1, prev_flex + flex, each_child_width,
                     x, y, z, height, a1)

\* a row that splits by the number of children, not by the total weight
RowComputeByCount(heap, id, x, y, z, width, height, acc) ==
    RowEach(heap, id, 1, 0, FDiv(width, AsF64(Len(heap[id].children))), x, y, z, height, acc)

RowCompute(heap, id, x, y, z, width, height, acc) ==
    LET total_len == Sum(heap[id].flex)
        each_child_width == FDiv(width, AsF64(total_len))
    IN  RowEach(heap, id, 1, 0, each_child_width, x, y, z, height, acc)

RECURSIVE ColumnEach(_, _, _, _, _, _, _, _, _, _)
ColumnEach(heap, id, i, prev_flex, each_child_height, x, y, z, width, acc) ==
    IF i > Len(heap[id].children) THEN acc
    ELSE LET flex   == heap[id].flex[i]
             offset == FMul(AsF64(prev_flex), each_child_height)
             a1     == Compute(heap, heap[id].children[i], x, FAdd(y, offset), z,
                               width, FMul(each_child_height, AsF64(flex)), acc)
         IN  ColumnEach(heap, id, i + 1, prev_flex + flex, each_child_height,
                        x, y, z, width, a1)

\* a column that places child i at i unit heights, whatever the weights of
\* the children before it
RECURSIVE ColumnEachByIndex(_, _, _, _, _, _, _, _, _)
ColumnEachByIndex(heap, id, i, each_child_height, x, y, z, width, acc) ==
    IF i > Len(heap[id].children) THEN acc
    ELSE ColumnEachByIndex(heap, id, i + 1, each_child_height, x, y, z, width,
            Compute(heap, heap[id].children[i], x,
                    FAdd(y, FMul(AsF64(i - 1), each_child_height)), z,
                    width, FMul(each_child_height, AsF64(heap[id].flex[i])), acc))

ColumnComputeByIndex(heap, id, x, y, z, width, height, acc) ==
    ColumnEachByIndex(heap, id, 1, FDiv(height, AsF64(Sum(heap[id].flex))),
                      x, y, z, width, acc)

ColumnCompute(heap, id, x, y, z, width, height, acc) ==
    LET total_len == Sum(heap[id].flex)
        each_child_height == FDiv(height, AsF64(total_len))
    IN  ColumnEach(heap, id, 1, 0, each_child_height, x, y, z, width, acc)

\* enumerate().for_each of Stack::compute from child i on (i is 1-based)
RECURSIVE StackEach(_, _, _, _, _, _, _, _, _)
StackEach(heap, id, i, x, y, z, width, height, acc) ==
    IF i > Len(heap[id].children) THEN acc
    ELSE StackEach(heap, id, i + 1, x, y, z, width, height,
            Compute(heap, heap[id].children[i], x, y, z + (i - 1), width, height, acc))

\* a stack that hands its own z to every child
RECURSIVE StackEachFlat(_, _, _, _, _, _, _, _, _)
StackEachFlat(heap, id, i, x, y, z, width, height, acc) ==
    IF i > Len(heap[id].children) THEN acc
    ELSE StackEachFlat(heap, id, i + 1, x, y, z, width, height,
            Compute(heap, heap[id].children[i], x, y, z, width, height, acc))

StackComputeFlat(heap, id, x, y, z, width, height, acc) ==
    StackEachFlat(heap, id, 1, x, y, z, width, height, acc)

StackCompute(heap, id, x, y, z, width, height, acc) ==
    StackEach(heap, id, 1, x, y, z, width, height, acc)

\* dyn Widget::compute
Compute(heap, id, x, y, z, width, height, acc0) ==
    LET acc  == Called(acc0, id, x, y, z, width, height)
        kind == heap[id].kind
    IN  CASE kind = "Text"         -> TextCompute(heap, id, x, y, z, width, height, acc)
          [] kind = "Rectangle"    -> RectangleCompute(heap, id, x, y, z, width, height, acc)
          [] kind = "Empty"        -> EmptyCompute(heap, id, x, y, z, width, height, acc)
          [] kind = "MouseGesture" -> MouseGestureCompute(heap, id, x, y, z, width, height, acc)
          [] kind = "Padding"      -> PaddingCompute(heap, id, x, y, z, width, height, acc)
          [] kind = "Row"          -> RowCompute(heap, id, x, y, z, width, height, acc)
          [] kind = "Column"       -> ColumnCompute(heap, id, x, y, z, width, height, acc)
          [] kind = "Stack"        -> StackCompute(heap, id, x, y, z, width, height, acc)

\* compute(&tree, width, height): a fresh map, the root at the origin
LayoutPass(heap, tree, width, height) ==
    Compute(heap, tree, 0, 0, 0, width, height, [map |-> <<>>, args |-> <<>>])

compute(heap, tree, width, height) == LayoutPass(heap, tree, width, height).map

\* ------------------------------------------------------------- dispatch
\* Event; Option<Event> is an Event or None
Ev(type, prev_x, prev_y, x, y, button) ==
    [type |-> type, prev_x |-> prev_x, prev_y |-> prev_y, x |-> x, y |-> y,
     button |-> button]
MouseDown(x, y, button) == Ev("MouseDown", 0, 0, x, y, button)
MouseUp(x, y, button)   == Ev("MouseUp", 0, 0, x, y, button)
MouseMove(prev_x, prev_y, x, y) == Ev("MouseMove", prev_x, prev_y, x, y, 0)
None == Ev("None", 0, 0, 0, 0, 0)

\* ComputedWidget::in_hitbox: containment in the node's own rectangle, the
\* border radius not applied
in_hitbox(cw, x, y, border_radius) ==
    x > cw.x /\ y > cw.y /\ x < cw.x + cw.width /\ y < cw.y + cw.height

\* A dispatch pass threads st: the heap the callbacks write, and a record
\* of what ran: the callbacks invoked, the user's pressed callback
\* invocations, the nodes whose dispatch was entered, and what each node's
\* dispatch was given and returned.
\* It also holds the RefCell borrows outstanding (borrowed: the nodes whose
\* borrow() guard is alive, outermost first) and, per callback called, the
\* borrows that were outstanding then and the cell the callback borrowed
\* mutably; conflict tells that such a borrow_mut met an outstanding borrow.
NewPass(heap) ==
    [nodes |-> heap, calls |-> <<>>, pressed |-> <<>>, visited |-> <<>>,
     rets |-> <<>>, panicked |-> FALSE,
     borrowed |-> <<>>, borrows |-> <<>>, conflict |-> FALSE]

Ret(e, flag, st) == [e |-> e, flag |-> flag, st |-> st]

\* calling the closure in a callback slot
\* c_rect_state.borrow_mut() panics when the cell's node is borrowed
Call(st, id, name, cb, button) ==
    LET s1 == [st EXCEPT !.calls = Append(@, [id |-> id, cb |-> name, button |-> button]),
                         !.borrows = Append(@, [id |-> id, cell |-> cb.cell,
                                                held |-> st.borrowed])]
        s2 == IF cb.cell = NoId THEN s1
              ELSE [s1 EXCEPT !.nodes = StateWrite(@, cb.cell, cb.color)]
    IN  IF cb.cell # NoId /\ \E k \in DOMAIN st.borrowed : st.borrowed[k] = cb.cell
        THEN [s1 EXCEPT !.panicked = TRUE, !.conflict = TRUE]
        ELSE IF cb.pressed THEN [s2 EXCEPT !.pressed = Append(@, button)] ELSE s2

\* if let Some(cb) = &self.x_callback { cb(..) } else { false }
Fire(id, name, button, prev_state_change, st) ==
    LET cb == st.nodes[id][name]
    IN  IF cb.reg
        THEN Ret(None, prev_state_change \/ cb.ret, Call(st, id, name, cb, button))
        ELSE Ret(None, prev_state_change \/ FALSE, st)

RECURSIVE Dispatch(_, _, _, _, _)

\* a gesture that runs the callback of a press or release it was hit by,
\* but hands the event back instead of consuming it
MatchEventPassOn(id, event, prev_state_change, computed_widget, st) ==
    LET name == CASE event.type = "MouseDown" -> "click_callback"
                  [] event.type = "MouseUp" -> "release_callback"
                  [] OTHER -> "enter_callback"
        inside == in_hitbox(computed_widget, event.x, event.y, st.nodes[id].border_radius)
        was == in_hitbox(computed_widget, event.prev_x, event.prev_y, st.nodes[id].border_radius)
        r == Fire(id, name, event.button, prev_state_change, st)
    IN  IF event.type = "MouseMove"
        THEN IF inside /\ ~was THEN Fire(id, "enter_callback", 0, prev_state_change, st)
             ELSE IF ~inside /\ was THEN Fire(id, "leave_callback", 0, prev_state_change, st)
             ELSE Ret(event, prev_state_change, st)
        ELSE IF inside THEN Ret(event, r.flag, r.st)
             ELSE Ret(event, prev_state_change, st)

\* a gesture that takes the new point for the previous one: enter and leave
\* change places
MatchEventSwapped(id, event, prev_state_change, computed_widget, st) ==
    LET br == st.nodes[id].border_radius
        inside == in_hitbox(computed_widget, event.x, event.y, br)
        was == in_hitbox(computed_widget, event.prev_x, event.prev_y, br)
    IN  CASE event.type = "MouseDown" ->
               IF inside THEN Fire(id, "click_callback", event.button, prev_state_change, st)
               ELSE Ret(event, prev_state_change, st)
          [] event.type = "MouseUp" ->
               IF inside THEN Fire(id, "release_callback", event.button, prev_state_change, st)
               ELSE Ret(event, prev_state_change, st)
          [] event.type = "MouseMove" ->
               IF was /\ ~inside THEN Fire(id, "enter_callback", 0, prev_state_change, st)
               ELSE IF ~was /\ inside THEN Fire(id, "leave_callback", 0, prev_state_change, st)
               ELSE Ret(event, prev_state_change, st)

\* match event { .. } of MouseGesture::dispatch
MatchEvent(id, event, prev_state_change, cw, st) ==
    LET br == st.nodes[id].border_radius
    IN  CASE event.type = "MouseDown" ->
               IF in_hitbox(cw, event.x, event.y, br)
               THEN Fire(id, "click_callback", event.button, prev_state_change, st)
               ELSE Ret(event, prev_state_change, st)
          [] event.type = "MouseUp" ->
               IF in_hitbox(cw, event.x, event.y, br)
               THEN Fire(id, "release_callback", event.button, prev_state_change, st)
               ELSE Ret(event, prev_state_change, st)
          [] event.type = "MouseMove" ->
               IF in_hitbox(cw, event.x, event.y, br)
                  /\ ~in_hitbox(cw, event.prev_x, event.prev_y, br)
               THEN Fire(id, "enter_callback", 0, prev_state_change, st)
               ELSE IF ~in_hitbox(cw, event.x, event.y, br)
                       /\ in_hitbox(cw, event.prev_x, event.prev_y, br)
               THEN Fire(id, "leave_callback", 0, prev_state_change, st)
               ELSE Ret(event, prev_state_change, st)

\* a gesture that takes a missing layout entry for "not hit" and hands the
\* event back
MouseGestureDispatchLenient(id, event, prev_state_change, map, st) ==
    IF id \notin DOMAIN map
    THEN Ret(event, prev_state_change, st)
    ELSE MatchEvent(id, event, prev_state_change, map[id], st)

\* a gesture that offers the event to its background first and handles what
\* comes back
MouseGestureDispatchForward(id, event, prev_state_change, map, st) ==
    IF id \notin DOMAIN map
    THEN Ret(None, prev_state_change, [st EXCEPT !.panicked = TRUE])
    ELSE LET r == Dispatch(st.nodes[id].children[1], event, prev_state_change, map, st)
         IN  IF r.e = None \/ r.st.panicked THEN r
             ELSE MatchEvent(id, event, r.flag, map[id], r.st)

\* map.get(&self.get_id()).unwrap() panics when the id has no entry
MouseGestureDispatch(id, event, prev_state_change, map, st) ==
    IF id \notin DOMAIN map
    THEN Ret(None, prev_state_change, [st EXCEPT !.panicked = TRUE])
    ELSE MatchEvent(id, event, prev_state_change, map[id], st)

\* a leaf that swallows the event
LeafDispatchConsume(id, event, prev_state_change, map, st) ==
    Ret(None, prev_state_change, st)

\* Text::dispatch, Rectangle::dispatch, Empty::dispatch
LeafDispatch(id, event, prev_state_change, map, st) ==
    Ret(event, prev_state_change, st)

\* a padding that hands its child the event in the child's coordinates
PaddingDispatchLocal(id, event, prev_state_change, map, st) ==
    Dispatch(st.nodes[id].children[1],
             [event EXCEPT !.x = @ - st.nodes[id].padding[1],
                           !.y = @ - st.nodes[id].padding[2]],
             prev_state_change, map, st)

PaddingDispatch(id, event, prev_state_change, map, st) ==
    Dispatch(st.nodes[id].children[1], event, prev_state_change, map, st)

\* for child in &self.children { if let Some(ev) = e { .. } else { break } }
\* from child i on; a panic unwinds out of the loop
RECURSIVE ForChildren(_, _, _, _, _, _, _)

\* a loop that keeps the event but not what the children report
ForChildrenDropFlag(id, i, e, state_change, prev_state_change, map, st) ==
    IF i > Len(st.nodes[id].children) \/ e = None \/ st.panicked
    THEN Ret(e, prev_state_change, st)
    ELSE LET r == Dispatch(st.nodes[id].children[i], e, prev_state_change, map, st)
         IN  ForChildren(id, i + 1, r.e, prev_state_change, prev_state_change, map, r.st)

ForChildren(id, i, e, state_change, prev_state_change, map, st) ==
    IF i > Len(st.nodes[id].children) \/ e = None \/ st.panicked
    THEN Ret(e, state_change, st)
    ELSE LET r == Dispatch(st.nodes[id].children[i], e, prev_state_change, map, st)
         IN  ForChildren(id, i + 1, r.e, prev_state_change \/ r.flag,
                         prev_state_change, map, r.st)

\* a container that never stops: the event goes to every child
RECURSIVE OfferAll(_, _, _, _, _, _, _)
OfferAll(id, i, event, e, prev_state_change, map, st) ==
    IF i > Len(st.nodes[id].children) \/ st.panicked
    THEN Ret(e, prev_state_change, st)
    ELSE LET r == Dispatch(st.nodes[id].children[i], event, prev_state_change, map, st)
         IN  OfferAll(id, i + 1, event, IF e = None THEN None ELSE r.e,
                      prev_state_change \/ r.flag, map, r.st)

StackDispatchNoBreak(id, event, prev_state_change, map, st) ==
    OfferAll(id, 1, event, event, prev_state_change, map, st)

\* a row that offers the event to every child
RowDispatchNoBreak(id, event, prev_state_change, map, st) ==
    OfferAll(id, 1, event, event, prev_state_change, map, st)

RowDispatch(id, event, prev_state_change, map, st) ==
    ForChildren(id, 1, event, prev_state_change, prev_state_change, map, st)

StackDispatch(id, event, prev_state_change, map, st) ==
    ForChildren(id, 1, event, prev_state_change, prev_state_change, map, st)

ColumnDispatch(id, event, prev_state_change, map, st) ==
    ForChildren(id, 1, event, prev_state_change, prev_state_change, map, st)

\* x.borrow().dispatch(..): the shared borrow of the node is taken for the
\* call ..
TakeGuard(st0, id) ==
    [st0 EXCEPT !.visited = Append(@, id), !.borrowed = Append(@, id)]

\* a guard that is never dropped
LeakGuard(st0, r) == r

\* .. and dropped when the call has returned r
DropGuard(st0, r) == [r EXCEPT !.st.borrowed = st0.borrowed]

\* dyn Widget::dispatch
Dispatch(id, event, prev_state_change, map, st0) ==
    LET st   == TakeGuard(st0, id)
        kind == st.nodes[id].kind
        r ==
          CASE kind = "MouseGesture" -> MouseGestureDispatch(id, event, prev_state_change, map, st)
            [] kind = "Padding"      -> PaddingDispatch(id, event, prev_state_change, map, st)
            [] kind = "Row"          -> RowDispatch(id, event, prev_state_change, map, st)
            [] kind = "Stack"        -> StackDispatch(id, event, prev_state_change, map, st)
            [] kind = "Column"       -> ColumnDispatch(id, event, prev_state_change, map, st)
            [] OTHER                 -> LeafDispatch(id, event, prev_state_change, map, st)
    IN  IF r.st.panicked THEN r
        ELSE DropGuard(st0,
               [r EXCEPT !.st.rets = Append(@, [id |-> id, event |-> event,
                  prior |-> prev_state_change, e |-> r.e, flag |-> r.flag,
                  ncalls |-> Len(r.st.calls) - Len(st0.calls),
                  wrote |-> r.st.nodes # st0.nodes])])

\* tree.borrow().dispatch(event, prev_state_change, &map)
DispatchPass(event, prev_state_change) ==
    Dispatch(root, event, prev_state_change, computed, NewPass(nodes))

\* ---------------------------------------------------------------- trees
\* The trees the passes are run on.  Lengths are whole numbers of F(1).

Tree(b) == [nodes |-> b.nodes, root |-> Built(b), counter |-> b.counter, cells |-> b.cells]

\* gltests/main.rs main: a padded button over a column of two texts
MainTree(pad, border) ==
    LET b1 == TextBuild(NewHeap, "Hello World", "BLUE")
        t1 == Built(b1)
        b2 == TextBuild(b1, "Hello World 2", "MAGENTA")
        t2 == Built(b2)
        b3 == ColumnBuild(b2, <<t1, t2>>, <<1, 1>>)
        b4 == ButtonBuildState(StateNew(b3), NewState(StateNew(b3)),
                               "RED", "YELLOW", "GREEN", border, Built(b3), TRUE)
    IN  Tree(PaddingBuild(b4, Built(b4), <<pad, pad, pad, pad>>))

\* a button alone, no child
ButtonTree(pressed) ==
    Tree(ButtonBuildState(StateNew(NewHeap), NewState(StateNew(NewHeap)),
                          "RED", "YELLOW", "GREEN", 0, NoId, pressed))

\* a gesture over a rectangle, every callback registered and returning ret
GestureOver(b, color, ret) ==
    LET b1 == RectangleBuild(b, color, 0)
    IN  MouseGestureBuild(b1, Built(b1), 0, Cb(ret), Cb(ret), Cb(ret), Cb(ret))

Container(b, kind, children, flex) ==
    CASE kind = "Row"    -> RowBuild(b, children, flex)
      [] kind = "Column" -> ColumnBuild(b, children, flex)
      [] kind = "Stack"  -> StackBuild(b, children)

\* a container of two gestures A then B
TwoGestures(kind, retA, retB) ==
    LET b1 == GestureOver(NewHeap, "BLUE", retA)
        b2 == GestureOver(b1, "CYAN", retB)
    IN  Tree(Container(b2, kind, <<Built(b1), Built(b2)>>, <<1, 1>>))

\* a gesture with no callback registered, then one with all of them
BareGesture(kind) ==
    LET b1 == EmptyNew(NewHeap)
        b2 == MouseGestureBuild(b1, Built(b1), 0, NoCb, NoCb, NoCb, NoCb)
        b3 == GestureOver(b2, "CYAN", TRUE)
    IN  Tree(Container(b3, kind, <<Built(b2), Built(b3)>>, <<1, 1>>))

\* a row or column of rectangles with the given flex weights
RECURSIVE Rects(_, _, _)
Rects(b, n, ids) ==
    IF n = 0 THEN [b |-> b, ids |-> ids]
    ELSE LET b1 == RectangleBuild(b, "BLUE", 0)
         IN  Rects(b1, n - 1, Append(ids, Built(b1)))

FlexTree(kind, flex) ==
    LET r == Rects(NewHeap, Len(flex), <<>>)
    IN  Tree(Container(r.b, kind, r.ids, flex))

\* a padded rectangle
PaddingTree(padding) ==
    LET b1 == RectangleBuild(NewHeap, "BLUE", 0)
    IN  Tree(PaddingBuild(b1, Built(b1), padding))

\* a row of a rectangle (flex 2) and a padded rectangle (flex 1)
PaddedInRow(padding) ==
    LET b1 == RectangleBuild(NewHeap, "BLUE", 0)
        b2 == RectangleBuild(b1, "CYAN", 0)
        b3 == PaddingBuild(b2, Built(b2), padding)
    IN  Tree(RowBuild(b3, <<Built(b1), Built(b3)>>, <<2, 1>>))

\* a stack holding a rectangle, a stack and a gesture
StackTree ==
    LET b1 == RectangleBuild(NewHeap, "BLUE", 0)
        b2 == TextBuild(b1, "a", "RED")
        b3 == RectangleBuild(b2, "CYAN", 0)
        b4 == StackBuild(b3, <<Built(b2), Built(b3)>>)
        b5 == GestureOver(b4, "GREEN", TRUE)
    IN  Tree(StackBuild(b5, <<Built(b1), Built(b4), Built(b5)>>))

\* containers inside containers: a column of a row of two buttons (flex 1
\* and 2) and a padded stack of a text and a gesture
NestedTree(ret, padding) ==
    LET b1 == ButtonBuildState(StateNew(NewHeap), NewState(StateNew(NewHeap)),
                               "RED", "YELLOW", "GREEN", 0, NoId, TRUE)
        b2 == ButtonBuildState(StateNew(b1), NewState(StateNew(b1)),
                               "BLUE", "CYAN", "MAGENTA", 0, NoId, FALSE)
        b3 == RowBuild(b2, <<Built(b1), Built(b2)>>, <<1, 2>>)
        b4 == TextBuild(b3, "t", "BLUE")
        b5 == GestureOver(b4, "GREEN", ret)
        b6 == StackBuild(b5, <<Built(b4), Built(b5)>>)
        b7 == PaddingBuild(b6, Built(b6), padding)
    IN  Tree(ColumnBuild(b7, <<Built(b3), Built(b7)>>, <<1, 1>>))

\* a gesture inside a gesture: a button whose child is a padded gesture over
\* a rectangle, every callback of it registered
GestureInButton(padding) ==
    LET b1 == GestureOver(NewHeap, "CYAN", TRUE)
        b2 == PaddingBuild(b1, Built(b1), padding)
    IN  Tree(ButtonBuildState(StateNew(b2), NewState(StateNew(b2)),
                              "RED", "YELLOW", "GREEN", 0, Built(b2), TRUE))

\* a container of the three leaves: an empty, a text, a rectangle
Leaves(kind) ==
    LET b1 == EmptyNew(NewHeap)
        b2 == TextBuild(b1, "a", "RED")
        b3 == RectangleBuild(b2, "BLUE", 0)
    IN  Tree(Container(b3, kind, <<Built(b1), Built(b2), Built(b3)>>, <<1, 1, 1>>))

Kinds == {"Row", "Column", "Stack"}

\* flex weights of the rows and columns laid out
MaxFlex == 3
FlexLists ==
    {<<a>> : a \in 1..MaxFlex} \cup {<<a, b>> : a \in 0..1, b \in 1..MaxFlex}
    \cup {<<1, a, MaxFlex>> : a \in 1..MaxFlex}

\* flex weights that add up to zero: no child, or every weight 0
ZeroFlexLists == {<<>>, <<0>>, <<0, 0>>}

\* padding insets, in halves of F(1)
MaxPad == 7
Pads == {<<0, 0, 0, 0>>, <<2, 2, 2, 2>>, <<2, 4, 6, 0>>, <<1, 3, 1, 3>>,
         <<6, 2, 6, 2>>, <<2 * MaxPad, 2 * MaxPad, 2 * MaxPad, 2 * MaxPad>>,
         <<4, 0, 4, 2 * MaxPad>>}
Half(p) == <<p[1] * (Unit \div 2), p[2] * (Unit \div 2),
             p[3] * (Unit \div 2), p[4] * (Unit \div 2)>>

\* the trees events are dispatched on
Trees ==
    {MainTree(F(1) \div 2, F(1)), ButtonTree(TRUE), ButtonTree(FALSE), StackTree,
     NestedTree(FALSE, Half(<<1, 1, 1, 1>>))}
    \cup {TwoGestures(k, r, ~r) : k \in Kinds, r \in BOOLEAN}
    \cup {BareGesture(k) : k \in {"Row", "Stack"}}
    \cup {Leaves("Stack")}
    \cup {GestureInButton(Half(<<1, 1, 1, 1>>))}

\* the trees laid out
LayoutTrees ==
    {MainTree(F(1) \div 2, F(1)), StackTree}
    \cup {FlexTree(k, f) : k \in {"Row", "Column"}, f \in FlexLists \cup ZeroFlexLists}
    \cup {PaddingTree(Half(p)) : p \in Pads}
    \cup {PaddedInRow(Half(p)) : p \in Pads}
    \cup {NestedTree(TRUE, Half(<<1, 1, 1, 1>>))}
    \cup {Leaves(k) : k \in Kinds}

\* window sizes and pointer positions, in F(1)
MaxSize == 6
Sizes == {<<4, 2>>, <<MaxSize, 4>>}
LayoutSizes == Sizes \cup {<<0, 1>>, <<1, 0>>, <<3, 3>>, <<MaxSize + 4, 1>>, <<1, MaxSize + 1>>}
Points == {<<-1, -1>>, <<1, 1>>, <<3, 1>>, <<5, 3>>}
Buttons == {0, 1}

Events ==
    {MouseDown(F(p[1]), F(p[2]), b) : p \in Points, b \in Buttons}
    \cup {MouseUp(F(p[1]), F(p[2]), b) : p \in Points, b \in Buttons}
    \cup {MouseMove(F(p[1]), F(p[2]), F(q[1]), F(q[2])) : p \in Points, q \in Points}

\* ------------------------------------------------------ the library API
\* A caller builds a tree, then calls compute and dispatch in any order.

Idle == [op |-> "init", event |-> None, prior |-> FALSE, e |-> None, flag |-> FALSE,
         calls |-> <<>>, pressed |-> <<>>, visited |-> <<>>, rets |-> <<>>,
         before |-> <<>>, borrows |-> <<>>, conflict |-> FALSE,
         recomputed |-> FALSE, again |-> FALSE]

\* the history variable after a dispatch of event that returned r: step k
\* is reached from step k - 1 by a move into the root gesture (1), a press
\* inside it (2), a release inside it (3); anything else starts over
NoScenario == [step |-> 0, pressed |-> 0]
Follow(event, r) ==
    LET g == root
        on == /\ nodes[g].kind = "MouseGesture" /\ g \in DOMAIN computed
        inside == on /\ in_hitbox(computed[g], event.x, event.y, nodes[g].border_radius)
        was == on /\ in_hitbox(computed[g], event.prev_x, event.prev_y, nodes[g].border_radius)
        n == Len(r.st.pressed)
    IN  IF event.type = "MouseMove" /\ inside /\ ~was
        THEN [step |-> 1, pressed |-> n]
        ELSE IF scenario.step = 1 /\ event.type = "MouseDown" /\ inside
        THEN [step |-> 2, pressed |-> scenario.pressed + n]
        ELSE IF scenario.step = 2 /\ event.type = "MouseUp" /\ inside
        THEN [step |-> 3, pressed |-> scenario.pressed + n]
        ELSE NoScenario

Init ==
    /\ \E t \in Trees : /\ nodes = t.nodes /\ root = t.root
                        /\ counter = t.counter /\ cells = t.cells
    /\ computed = <<>>
    /\ args = <<>>
    /\ mouse_x = 0 /\ mouse_y = 0
    /\ win_width = 0 /\ win_height = 0
    /\ aborted = FALSE
    /\ last = Idle
    /\ scenario = NoScenario

\* the compute call repeats the call before it: no dispatch in between, the
\* same width and height
Repeats(width, height) ==
    last.op = "compute" /\ win_width = width /\ win_height = height

\* a compute that fills the map of the pass before, keeping what it holds
ComputeCallKeep(width, height) ==
    /\ ~aborted
    /\ \E pass \in {LayoutPass(nodes, root, width, height)} :
           /\ computed' = computed @@ pass.map
           /\ args' = pass.args
    /\ win_width' = width /\ win_height' = height
    /\ last' = [Idle EXCEPT !.op = "compute", !.again = Repeats(width, height)]
    /\ UNCHANGED <<nodes, root, mouse_x, mouse_y, aborted, scenario, counter, cells>>

\* let map = compute(&tree, width, height)
ComputeCall(width, height) ==
    /\ ~aborted
    /\ \E pass \in {LayoutPass(nodes, root, width, height)} :
           /\ computed' = pass.map
           /\ args' = pass.args
    /\ win_width' = width /\ win_height' = height
    /\ last' = [Idle EXCEPT !.op = "compute", !.again = Repeats(width, height)]
    /\ UNCHANGED <<nodes, root, mouse_x, mouse_y, aborted, scenario, counter, cells>>

\* what a dispatch call did, as the caller can observe it
Outcome(event, prior, r, recomputed) ==
    [op |-> "dispatch", event |-> event, prior |-> prior, e |-> r.e, flag |-> r.flag,
     calls |-> r.st.calls, pressed |-> r.st.pressed, visited |-> r.st.visited,
     rets |-> r.st.rets,
     before |-> nodes, borrows |-> r.st.borrows, conflict |-> r.st.conflict,
     recomputed |-> recomputed, again |-> FALSE]

\* tree.borrow().dispatch(event, prev_state_change, &map)
DispatchCall(event, prior) ==
    /\ ~aborted
    /\ \E r \in {DispatchPass(event, prior)} :
           /\ nodes' = r.st.nodes
           /\ aborted' = r.st.panicked
           /\ last' = Outcome(event, prior, r, FALSE)
           /\ scenario' = Follow(event, r)
    /\ UNCHANGED <<root, computed, args, mouse_x, mouse_y, win_width, win_height,
                   counter, cells>>

Next ==
    \/ \E s \in Sizes : ComputeCall(F(s[1]), F(s[2]))
    \/ \E ev \in Events, prior \in BOOLEAN : DispatchCall(ev, prior)

Spec == Init /\ [][Next]_vars

\* ------------------------------------------------------ the layout pass
\* compute alone, on every tree and box

InitLayout ==
    /\ \E t \in LayoutTrees : /\ nodes = t.nodes /\ root = t.root
                              /\ counter = t.counter /\ cells = t.cells
    /\ computed = <<>>
    /\ args = <<>>
    /\ mouse_x = 0 /\ mouse_y = 0
    /\ win_width = 0 /\ win_height = 0
    /\ aborted = FALSE
    /\ last = Idle
    /\ scenario = NoScenario

NextLayout == \E s \in LayoutSizes : ComputeCall(F(s[1]), F(s[2]))

SpecLayout == InitLayout /\ [][NextLayout]_vars

\* -------------------------------------------------------- the host loop
\* gltests/main.rs run: one action per window event taken from the queue.

InitHost ==
    /\ \E t \in Trees : /\ nodes = t.nodes /\ root = t.root
                        /\ counter = t.counter /\ cells = t.cells
    /\ mouse_x = 0 /\ mouse_y = 0
    /\ \E s \in Sizes :
          /\ win_width = F(s[1]) /\ win_height = F(s[2])
          /\ \E pass \in {LayoutPass(nodes, root, F(s[1]), F(s[2]))} :
                computed = pass.map /\ args = pass.args
    /\ aborted = FALSE
    /\ last = Idle
    /\ scenario = NoScenario

\* a loop that dispatches and never lays out again
HandleStale(event) ==
    \E r \in {DispatchPass(event, FALSE)} :
        /\ nodes' = r.st.nodes
        /\ aborted' = r.st.panicked
        /\ computed' = computed
        /\ args' = args
        /\ last' = Outcome(event, FALSE, r, FALSE)
        /\ scenario' = Follow(event, r)

\* if tree.borrow().dispatch(event, false, &computed).1
\*     { computed = compute(&tree, win_width, win_height); }
Handle(event) ==
    \E r \in {DispatchPass(event, FALSE)} :
        /\ nodes' = r.st.nodes
        /\ aborted' = r.st.panicked
        /\ IF r.flag /\ ~r.st.panicked
           THEN \E pass \in {LayoutPass(r.st.nodes, root, win_width, win_height)} :
                   computed' = pass.map /\ args' = pass.args
           ELSE computed' = computed /\ args' = args
        /\ last' = Outcome(event, FALSE, r, r.flag /\ ~r.st.panicked)
        /\ scenario' = Follow(event, r)

CursorEnter(entered) ==
    /\ ~aborted
    /\ IF ~entered
       THEN /\ Handle(MouseMove(mouse_x, mouse_y, F(-1), F(-1)))
            /\ mouse_x' = F(-1) /\ mouse_y' = F(-1)
            /\ UNCHANGED <<root, win_width, win_height, counter, cells>>
       ELSE UNCHANGED vars

CursorPos(x, y) ==
    /\ ~aborted
    /\ Handle(MouseMove(mouse_x, mouse_y, x, y))
    /\ mouse_x' = x /\ mouse_y' = y
    /\ UNCHANGED <<root, win_width, win_height, counter, cells>>

MouseButtonPress(button) ==
    /\ ~aborted
    /\ Handle(MouseDown(mouse_x, mouse_y, button % 256))
    /\ UNCHANGED <<root, mouse_x, mouse_y, win_width, win_height, counter, cells>>

MouseButtonRelease(button) ==
    /\ ~aborted
    /\ Handle(MouseUp(mouse_x, mouse_y, button % 256))
    /\ UNCHANGED <<root, mouse_x, mouse_y, win_width, win_height, counter, cells>>

Size(width, height) ==
    /\ ~aborted
    /\ win_width' = AsF64(width) /\ win_height' = AsF64(height)
    /\ \E pass \in {LayoutPass(nodes, root, AsF64(width), AsF64(height))} :
          computed' = pass.map /\ args' = pass.args
    /\ last' = [Idle EXCEPT !.op = "compute"]
    /\ UNCHANGED <<nodes, root, mouse_x, mouse_y, aborted, scenario, counter, cells>>

NextHost ==
    \/ \E entered \in BOOLEAN : CursorEnter(entered)
    \/ \E p \in Points : CursorPos(F(p[1]), F(p[2]))
    \/ \E b \in Buttons : MouseButtonPress(b)
    \/ \E b \in Buttons : MouseButtonRelease(b)
    \/ \E s \in Sizes : Size(s[1], s[2])

SpecHost == InitHost /\ [][NextHost]_vars

\* ------------------------------------------------------- construction
\* A program builds nodes with the builders, makes State handles, binds them
\* with build_stateful and reads and writes through them, in any order.

MaxNodes == 3
MaxCells == 2

Here == [nodes |-> nodes, counter |-> counter, cells |-> cells]

InitBuild ==
    /\ nodes = <<>> /\ root = NoId
    /\ counter = COUNTER /\ cells = <<>>
    /\ computed = <<>> /\ args = <<>>
    /\ mouse_x = 0 /\ mouse_y = 0
    /\ win_width = 0 /\ win_height = 0
    /\ aborted = FALSE
    /\ last = Idle
    /\ scenario = NoScenario

\* the builder call op returned the heap b
Adopt(op, b, state) ==
    /\ ~aborted
    /\ Cardinality(DOMAIN b.nodes) <= MaxNodes
    /\ nodes' = b.nodes /\ counter' = b.counter /\ cells' = b.cells
    /\ root' = Built(b)
    /\ last' = [op |-> op, state |-> state, rc |-> Built(b)]
    /\ UNCHANGED <<computed, args, mouse_x, mouse_y, win_width, win_height,
                   aborted, scenario>>

\* the nodes handed to a builder as children: the node built last, and with
\* it the node built first
Latest == IF root = NoId THEN {} ELSE {root}
Picks == {<<>>} \cup {<<0, a>> : a \in Latest}
Unbound == {state \in DOMAIN cells : ~Bound(cells, state)}

BuildText == Adopt("build", TextBuild(Here, "a", "RED"), 0)
BuildTextStateful ==
    \E state \in Unbound :
        Adopt("build_stateful", TextBuildStateful(Here, "a", "RED", state), state)
BuildRectangle == Adopt("build", RectangleBuild(Here, "RED", 0), 0)
BuildRectangleStateful ==
    \E state \in Unbound :
        Adopt("build_stateful", RectangleBuildStateful(Here, "RED", 0, state), state)
NewEmpty == Adopt("build", EmptyNew(Here), 0)
BuildMouseGesture ==
    \E child \in Latest :
        Adopt("build", MouseGestureBuild(Here, child, 0, NoCb, NoCb, NoCb, NoCb), 0)
BuildPadding ==
    \E child \in Latest :
        Adopt("build", PaddingBuild(Here, child, <<0, 0, 0, 0>>), 0)
BuildContainer ==
    \E kind \in Kinds, children \in Picks :
        Adopt("build", Container(Here, kind, children, [i \in DOMAIN children |-> 1]), 0)
BuildButton ==
    \E state \in Unbound, child \in Latest \cup {NoId} :
        Adopt("build_state",
              ButtonBuildState(Here, state, "RED", "YELLOW", "GREEN", 0, child, FALSE), state)

\* State::new()
StateNewCall ==
    /\ ~aborted
    /\ Len(cells) < MaxCells
    /\ cells' = StateNew(Here).cells
    /\ last' = [op |-> "State::new", state |-> NewState(StateNew(Here)), rc |-> NoId]
    /\ UNCHANGED <<nodes, root, counter, computed, args, mouse_x, mouse_y,
                   win_width, win_height, aborted, scenario>>

\* state.borrow(): the node's data, or the call is rejected on a handle
\* that is not bound
Borrow(state) ==
    /\ ~aborted
    /\ aborted' = ~Bound(cells, state)
    /\ last' = [op |-> "borrow", state |-> state, rc |-> cells[state],
                data |-> IF Bound(cells, state) THEN nodes[cells[state]] ELSE NewNode("None")]
    /\ UNCHANGED <<nodes, root, counter, cells, computed, args, mouse_x, mouse_y,
                   win_width, win_height, scenario>>

\* state.borrow_mut().color = color
BorrowMut(state, color) ==
    /\ ~aborted
    /\ aborted' = ~Bound(cells, state)
    /\ nodes' = IF Bound(cells, state) THEN StateWrite(nodes, cells[state], color) ELSE nodes
    /\ last' = [op |-> "borrow_mut", state |-> state, rc |-> cells[state],
                data |-> IF Bound(cells, state) THEN nodes'[cells[state]] ELSE NewNode("None")]
    /\ UNCHANGED <<root, counter, cells, computed, args, mouse_x, mouse_y,
                   win_width, win_height, scenario>>

NextBuild ==
    \/ BuildText
    \/ BuildTextStateful
    \/ BuildRectangle
    \/ BuildRectangleStateful
    \/ NewEmpty
    \/ BuildMouseGesture
    \/ BuildPadding
    \/ BuildContainer
    \/ BuildButton
    \/ StateNewCall
    \/ \E state \in DOMAIN cells : Borrow(state)
    \/ \E state \in DOMAIN cells : BorrowMut(state, "MAGENTA")

SpecBuild == InitBuild /\ [][NextBuild]_vars

\* =============================================================== claims

\* a dispatch call has returned
Dispatched == last.op = "dispatch" /\ ~aborted
\* a layout pass has just run
Laid == last.op = "compute"

Range(s) == {s[i] : i \in DOMAIN s}
Ids == DOMAIN nodes
Child(c, i) == nodes[c].children[i]
Children(c) == DOMAIN nodes[c].children
Containers == {c \in Ids : nodes[c].kind \in Kinds}
Gestures == {g \in Ids : nodes[g].kind = "MouseGesture"}

RECURSIVE Subtree(_)
Subtree(id) == {id} \cup UNION {Subtree(Child(id, i)) : i \in Children(id)}

Visited(id) == id \in Range(last.visited)
\* what the dispatch of node id returned in the latest pass
RetOf(id) == CHOOSE r \in Range(last.rets) : r.id = id
Pos(id) == CHOOSE k \in DOMAIN last.visited : last.visited[k] = id
CallsIn(ids) == {c \in Range(last.calls) : c.id \in ids}

\* the point of the dispatched event lies in the layout rectangle of g
Hit(g, x, y) == g \in DOMAIN computed /\ in_hitbox(computed[g], x, y, nodes[g].border_radius)

\* C1: a container offers the event to its children in child order, and once
\* a child has consumed it no later child is dispatched to and no callback
\* below a later child runs; of two gesture children whose rectangles both
\* hold the point of a MouseDown, the first consumes it and the second's
\* click callback is not invoked.
C1_ConsumptionStopsSiblings ==
    Dispatched =>
      \A c \in Containers : \A i \in Children(c), j \in Children(c) :
        (i < j /\ Visited(c)) =>
          /\ Visited(Child(c, j)) =>
               /\ Visited(Child(c, i))
               /\ Pos(Child(c, i)) < Pos(Child(c, j))
               /\ RetOf(Child(c, i)).e # None
          /\ (Visited(Child(c, i)) /\ RetOf(Child(c, i)).e = None) =>
               /\ ~Visited(Child(c, j))
               /\ CallsIn(Subtree(Child(c, j))) = {}
          /\ ( /\ last.event.type = "MouseDown"
               /\ {Child(c, i), Child(c, j)} \subseteq Gestures
               /\ Hit(Child(c, i), last.event.x, last.event.y)
               /\ Hit(Child(c, j), last.event.x, last.event.y)
               /\ Visited(Child(c, i)) ) =>
               /\ RetOf(Child(c, i)).e = None
               /\ nodes[Child(c, i)].click_callback.reg =>
                    [id |-> Child(c, i), cb |-> "click_callback",
                     button |-> last.event.button] \in Range(last.calls)
               /\ CallsIn({Child(c, j)}) = {}

\* two gestures A then B in one container, both rectangles holding the
\* point of a MouseDown that A consumed
C1_Witness ==
    /\ Dispatched
    /\ last.event.type = "MouseDown"
    /\ \E c \in Containers :
          /\ Len(nodes[c].children) = 2
          /\ {Child(c, 1), Child(c, 2)} \subseteq Gestures
          /\ Hit(Child(c, 1), last.event.x, last.event.y)
          /\ Hit(Child(c, 2), last.event.x, last.event.y)
          /\ nodes[Child(c, 2)].click_callback.reg
          /\ RetOf(Child(c, 1)).e = None
          /\ ~Visited(Child(c, 2))

\* the callbacks the latest pass invoked on gesture g, in order
CallsOf(g) == SelectSeq(last.calls, LAMBDA c : c.id = g)
CallOf(g, name, button) == [id |-> g, cb |-> name, button |-> button]

\* C2: a gesture given a MouseDown (MouseUp) whose point lies in its layout
\* rectangle invokes its click (release) callback, if one is registered,
\* exactly once with the event's button, invokes nothing else, and consumes
\* the event; when the point lies outside it invokes nothing and returns
\* the same event and the prior flag.
C2_PressReleaseHitTest ==
    Dispatched =>
      \A g \in Gestures : Visited(g) =>
        LET r == RetOf(g)
            name == IF r.event.type = "MouseDown" THEN "click_callback"
                    ELSE "release_callback"
        IN  r.event.type \in {"MouseDown", "MouseUp"} =>
              IF Hit(g, r.event.x, r.event.y)
              THEN /\ r.e = None
                   /\ CallsOf(g) = IF nodes[g][name].reg
                                   THEN <<CallOf(g, name, r.event.button)>>
                                   ELSE <<>>
              ELSE /\ r.e = r.event
                   /\ r.flag = r.prior
                   /\ CallsOf(g) = <<>>

\* a release of button 1 inside a gesture with a release callback, after a
\* press outside of it was handed on
C2_Witness ==
    /\ Dispatched
    /\ \E g \in Gestures, h \in Gestures :
          /\ Visited(g) /\ Visited(h)
          /\ last.event.type = "MouseUp" /\ last.event.button = 1
          /\ ~Hit(h, last.event.x, last.event.y) /\ RetOf(h).e = last.event
          /\ Hit(g, last.event.x, last.event.y)
          /\ CallsOf(g) = <<CallOf(g, "release_callback", 1)>>

\* C3: a gesture given a MouseMove from outside its rectangle to inside
\* invokes only its enter callback and consumes the event; from inside to
\* outside only its leave callback, and consumes; with both points inside
\* or both outside it invokes nothing and returns the event unchanged.
C3_EnterLeave ==
    Dispatched =>
      \A g \in Gestures : Visited(g) =>
        LET r == RetOf(g)
            now == Hit(g, r.event.x, r.event.y)
            was == Hit(g, r.event.prev_x, r.event.prev_y)
            only(name) == IF nodes[g][name].reg THEN <<CallOf(g, name, 0)>> ELSE <<>>
        IN  r.event.type = "MouseMove" =>
              /\ (~was /\ now) => r.e = None /\ CallsOf(g) = only("enter_callback")
              /\ (was /\ ~now) => r.e = None /\ CallsOf(g) = only("leave_callback")
              /\ (was = now) => r.e = r.event /\ r.flag = r.prior /\ CallsOf(g) = <<>>

\* a move out of a gesture's rectangle that ran its leave callback
C3_Witness ==
    /\ Dispatched
    /\ last.event.type = "MouseMove"
    /\ \E g \in Gestures :
          /\ Visited(g)
          /\ Hit(g, last.event.prev_x, last.event.prev_y)
          /\ ~Hit(g, last.event.x, last.event.y)
          /\ CallsOf(g) = <<CallOf(g, "leave_callback", 0)>>
          /\ last.e = None

\* what the callback of a recorded call returned
Returned(c) == nodes[c.id][c.cb].ret

\* C4: the flag a dispatch returns, at the root and at every node below it,
\* is the prior flag it was given or-ed with what every callback invoked
\* inside that node's subtree returned.
C4_FlagAccumulates ==
    Dispatched =>
      /\ last.flag = (last.prior \/ \E c \in Range(last.calls) : Returned(c))
      /\ \A n \in Ids : Visited(n) =>
           RetOf(n).flag = (RetOf(n).prior \/ \E c \in CallsIn(Subtree(n)) : Returned(c))

\* a callback two containers down, not under a first child, returned true
\* with a false prior flag, and the root reports true
C4_Witness ==
    /\ Dispatched
    /\ ~last.prior /\ last.flag
    /\ root \in Containers
    /\ \E c \in Containers \ {root}, i \in 2..3 :
          /\ c \in Range(nodes[root].children)
          /\ i \in Children(c)
          /\ \E k \in CallsIn(Subtree(Child(c, i))) : Returned(k)

\* the gestures built by Button::build_state, and the rectangle each wraps
ButtonGestures == {g \in Gestures : nodes[g].click_callback.cell # NoId}
RectOf(g) == Child(Child(g, 1), 1)
\* the colours a button was built with, told by the colour its rectangle had
Palette(color) ==
    IF color \in {"RED", "YELLOW", "GREEN"}
    THEN [base |-> "RED", hover |-> "YELLOW", active |-> "GREEN"]
    ELSE [base |-> "BLUE", hover |-> "CYAN", active |-> "MAGENTA"]

\* C5: a pointer event that hits a button leaves its rectangle's colour at
\* active after a MouseDown inside, hover after a MouseUp inside (the user's
\* pressed callback having run exactly once with the event's button), hover
\* after a move entering, base after a move leaving, each time with the flag
\* true; enter, press, release on a red/yellow/green button gives yellow,
\* green, yellow and one pressed invocation in all.
C5_ButtonColours ==
    /\ Dispatched =>
         \A g \in ButtonGestures : Visited(g) =>
           LET r == RetOf(g)
               pal == Palette(last.before[RectOf(g)].color)
               color == nodes[RectOf(g)].color
               now == Hit(g, r.event.x, r.event.y)
               was == Hit(g, r.event.prev_x, r.event.prev_y)
           IN  /\ (r.event.type = "MouseDown" /\ now) =>
                    color = pal.active /\ r.flag /\ last.flag /\ last.pressed = <<>>
               /\ (r.event.type = "MouseUp" /\ now) =>
                    /\ color = pal.hover /\ r.flag /\ last.flag
                    /\ nodes[g].release_callback.pressed => last.pressed = <<r.event.button>>
               /\ (r.event.type = "MouseMove" /\ now /\ ~was) =>
                    color = pal.hover /\ r.flag /\ last.flag /\ last.pressed = <<>>
               /\ (r.event.type = "MouseMove" /\ ~now /\ was) =>
                    color = pal.base /\ r.flag /\ last.flag /\ last.pressed = <<>>
    /\ (root \in ButtonGestures /\ ~aborted) =>
         LET color == nodes[RectOf(root)].color
         IN  /\ scenario.step = 1 => color = "YELLOW"
             /\ scenario.step = 2 => color = "GREEN"
             /\ scenario.step = 3 =>
                  /\ color = "YELLOW"
                  /\ nodes[root].release_callback.pressed => scenario.pressed = 1

\* enter, press, release have been dispatched in this order on a button
\* with a pressed callback
C5_Witness ==
    /\ root \in ButtonGestures
    /\ scenario = [step |-> 3, pressed |-> 1]
    /\ last.event.type = "MouseUp" /\ last.e = None /\ last.flag
    /\ nodes[RectOf(root)].color = "YELLOW"

\* the State<Rectangle> cell the closures of button g hold
CellOf(g) == nodes[g].enter_callback.cell

\* C6: a layout pass run after any dispatches records, for the rectangle
\* bound to a button's cell, the colour the cell holds now: yellow once the
\* enter callback of a red/yellow/green button has run.
C6_LayoutReadsCell ==
    Laid =>
      \A g \in ButtonGestures :
        /\ RectOf(g) \in DOMAIN computed
        /\ computed[RectOf(g)].render.kind = "Rectangle"
        /\ computed[RectOf(g)].render.color = nodes[CellOf(g)].color
        /\ (g = root /\ scenario.step = 1) => computed[RectOf(g)].render.color = "YELLOW"

\* a layout pass that ran right after a button's enter callback
C6_Witness ==
    /\ Laid
    /\ root \in ButtonGestures
    /\ scenario.step = 1
    /\ computed[RectOf(root)].render.color = "YELLOW"

\* C7: in the host loop the layout map is never stale: at start and after
\* every processed window event it is the result of compute on the tree as
\* it is now at the window size as it is now; a dispatch that reported a
\* change was followed by a layout pass.
C7_MapNeverStale ==
    ~aborted =>
      /\ computed = compute(nodes, root, win_width, win_height)
      /\ (last.op = "dispatch" /\ last.flag) => last.recomputed

\* the loop has laid out again after a press changed a button to green
C7_Witness ==
    /\ last.op = "dispatch" /\ last.event.type = "MouseDown" /\ last.recomputed
    /\ \E g \in ButtonGestures :
          /\ computed[RectOf(g)].render.color = "GREEN"
          /\ last.before[RectOf(g)].color = "YELLOW"

\* the rows and columns of the tree that the latest pass laid out with a
\* positive total flex weight
Flexed == {c \in Ids : nodes[c].kind \in {"Row", "Column"} /\ c \in DOMAIN args
                        /\ Sum(nodes[c].flex) > 0}
\* the extent along the split axis the pass handed to node id
Extent(c, id) == IF nodes[c].kind = "Row" THEN args[id].width ELSE args[id].height
RECURSIVE SumExtents(_, _)
SumExtents(c, i) == IF i = 0 THEN 0 ELSE Extent(c, Child(c, i)) + SumExtents(c, i - 1)

\* C8 as stated: the extents handed to the children of a row or column add
\* up to the extent of the row or column exactly, and any two of them are
\* exactly in the ratio of their flex weights.
C8_ExactSplit ==
    Laid =>
      \A c \in Flexed :
        /\ SumExtents(c, Len(nodes[c].children)) = Extent(c, c)
        /\ \A i \in Children(c), j \in Children(c) :
             Extent(c, Child(c, i)) * nodes[c].flex[j]
               = Extent(c, Child(c, j)) * nodes[c].flex[i]

\* the same statement with the sum and the products computed in f64, as a
\* caller comparing them would; it fails as well
RECURSIVE FSumExtents(_, _)
FSumExtents(c, i) ==
    IF i = 0 THEN 0 ELSE FAdd(FSumExtents(c, i - 1), Extent(c, Child(c, i)))

C8_ExactSplitF64 ==
    Laid =>
      \A c \in Flexed :
        /\ FSumExtents(c, Len(nodes[c].children)) = Extent(c, c)
        /\ \A i \in Children(c), j \in Children(c) :
             FMul(Extent(c, Child(c, i)), AsF64(nodes[c].flex[j]))
               = FMul(Extent(c, Child(c, j)), AsF64(nodes[c].flex[i]))

\* the rounding error of one f64 operation is at most Ulp(v) / 2^MantBits of
\* its result v, or half a quantum where the result underflows
Roundoff == Pow2(MantBits)

\* C8, amended: the extents handed to the children of a row or column of
\* extent W and total weight T add up to W within three roundoffs of W, and
\* any two of them are in the ratio of their weights within three roundoffs
\* of W / T times the two weights (and the underflow of the operations).
C8_SplitWithinRounding ==
    Laid =>
      \A c \in Flexed :
        LET W == Extent(c, c)
            T == Sum(nodes[c].flex)
            n == Len(nodes[c].children)
            f(i) == nodes[c].flex[i]
            e(i) == Extent(c, Child(c, i))
        IN  /\ Roundoff * Abs(SumExtents(c, n) - W) <= 3 * Abs(W) + (Roundoff \div 2) * (T + n)
            /\ \A i \in Children(c), j \in Children(c) :
                 Roundoff * T * Abs(e(i) * f(j) - e(j) * f(i))
                   <= 3 * Abs(W) * f(i) * f(j) + (Roundoff \div 2) * T * (f(i) + f(j))

\* a row of three children of different weights whose extents, each rounded,
\* do not add up to the row's width exactly
C8_Witness ==
    /\ Laid
    /\ \E c \in Flexed :
          /\ nodes[c].kind = "Row"
          /\ Len(nodes[c].children) = 3
          /\ nodes[c].flex[1] # nodes[c].flex[3]
          /\ Extent(c, c) > 0
          /\ SumExtents(c, 3) # Extent(c, c)

\* the stacks the latest pass laid out
Stacked == {c \in Ids : nodes[c].kind = "Stack" /\ c \in DOMAIN args}

\* C9: the i-th child of a stack (counting from 0) is laid out with the x,
\* y, width and height the stack was given and with the stack's z plus i.
C9_StackChildren ==
    Laid =>
      \A c \in Stacked : \A i \in Children(c) :
        /\ Child(c, i) \in DOMAIN args
        /\ args[Child(c, i)] = [args[c] EXCEPT !.z = args[c].z + (i - 1)]

\* a stack laid out at z = 1 inside another stack, its second child at z = 2
C9_Witness ==
    /\ Laid
    /\ \E c \in Stacked :
          /\ args[c].z = 1 /\ args[c].width > 0 /\ args[c].height > 0
          /\ Len(nodes[c].children) = 2
          /\ args[Child(c, 1)].z = 1
          /\ args[Child(c, 2)].z = 2
          /\ args[Child(c, 2)].width = args[c].width

\* the padding nodes the latest pass laid out
Padded == {c \in Ids : nodes[c].kind = "Padding" /\ c \in DOMAIN args}
Max0(v) == IF v < 0 THEN 0 ELSE v

Recorded == {id \in Subtree(root) : nodes[id].kind \in {"Text", "Rectangle", "MouseGesture"}}

LeafKinds == {"Text", "Rectangle", "Empty"}

\* C12: the dispatch of a text, a rectangle or an empty returns the event it
\* was given and the flag it was given, whatever the event, the flag and
\* the layout map (the empty map included), and runs no callback and
\* writes no cell.
C12_LeavesNeverConsume ==
    last.op = "dispatch" =>
      \A k \in DOMAIN last.rets :
        LET r == last.rets[k]
        IN  last.before[r.id].kind \in LeafKinds =>
              /\ r.e = r.event /\ r.e # None
              /\ r.flag = r.prior
              /\ r.ncalls = 0 /\ ~r.wrote
              /\ CallsIn({r.id}) = {}

\* the three kinds of leaf dispatched with an empty layout map and with a
\* true prior flag, a MouseDown at a point that a later layout puts inside
C12_Witness ==
    /\ last.op = "dispatch" /\ computed = <<>> /\ ~aborted
    /\ last.event.type = "MouseDown" /\ last.prior
    /\ \A kind \in LeafKinds : \E k \in DOMAIN last.rets :
          /\ nodes[last.rets[k].id].kind = kind
          /\ last.rets[k].prior /\ last.rets[k].e = last.event

\* C13: when a dispatch pass reaches a gesture whose id has no entry in the
\* layout map, the pass aborts there: the gesture's dispatch does not
\* return, no node is dispatched to after it, no callback of the gesture
\* runs and no cell is written.
C13_MissingEntryAborts ==
    last.op = "dispatch" =>
      \A g \in Gestures :
        (Visited(g) /\ g \notin DOMAIN computed) =>
          /\ aborted
          /\ \A k \in DOMAIN last.rets : last.rets[k].id # g
          /\ last.visited[Len(last.visited)] = g
          /\ CallsIn({g}) = {}
          /\ nodes = last.before

\* a MouseDown dispatched before any compute on a container whose second
\* child is a gesture with a click callback: the first child, a leaf, has
\* returned and the pass aborted at the gesture
C13_Witness ==
    /\ last.op = "dispatch" /\ aborted /\ computed = <<>>
    /\ last.event.type = "MouseDown"
    /\ Len(last.rets) > 0
    /\ \E g \in Gestures : Visited(g) /\ nodes[g].click_callback.reg

\* the rows and columns the latest pass laid out whose weights add up to 0
ZeroFlexed == {c \in Ids : nodes[c].kind \in {"Row", "Column"} /\ c \in DOMAIN args
                            /\ Sum(nodes[c].flex) = 0}

\* C14 as stated: a row or column whose total flex weight is zero places no
\* child (no child of it is computed, or the layout is rejected), and no node
\* is computed with a position or an extent that comes from a division by
\* zero.
C14_ZeroFlexRejected ==
    Laid =>
      /\ \A c \in ZeroFlexed : \A i \in Children(c) : Child(c, i) \notin DOMAIN args
      /\ \A id \in DOMAIN args :
           /\ IsFinite(args[id].x) /\ IsFinite(args[id].y)
           /\ IsFinite(args[id].width) /\ IsFinite(args[id].height)

\* what the code does instead: a row or column without children places
\* nothing; one whose children all have weight 0 computes every child, with a
\* NaN extent and a NaN offset along the split axis.
C14_ZeroFlexYieldsNaN ==
    Laid =>
      \A c \in ZeroFlexed : \A i \in Children(c) :
        /\ Child(c, i) \in DOMAIN args
        /\ IsNaN(Extent(c, Child(c, i)))
        /\ IsNaN(IF nodes[c].kind = "Row" THEN args[Child(c, i)].x ELSE args[Child(c, i)].y)

\* C15: every node a builder allocates gets an id greater than the id of
\* every node allocated before it (so no two nodes share an id), the three
\* nodes of a button included, and the id of a node never changes.
C15_IdsUniqueIncreasing ==
    [][/\ \A a \in DOMAIN nodes', c \in DOMAIN nodes' :
            a < c => nodes'[a].id < nodes'[c].id
       /\ \A a \in DOMAIN nodes :
            a \in DOMAIN nodes' /\ nodes'[a].id = nodes[a].id]_vars

\* the three nodes of a button, its rectangle written through the handle
\* afterwards
C15_Witness ==
    /\ Cardinality(DOMAIN nodes) >= 3
    /\ \E g \in ButtonGestures :
          /\ nodes[RectOf(g)].color = "MAGENTA"
          /\ nodes[g].id = nodes[RectOf(g)].id + 2

\* C16: a State handle is unbound when State::new returns it and stays
\* unbound until a build_stateful call given the handle binds it to the node
\* that call returns; a borrow or borrow_mut on an unbound handle is
\* rejected: the call aborts, yields no node's data and writes nothing.
C16_UnboundRejected ==
    [][/\ \A state \in DOMAIN cells' :
            /\ state \notin DOMAIN cells => ~Bound(cells', state)
            /\ (state \in DOMAIN cells /\ ~Bound(cells, state) /\ Bound(cells', state)) =>
                 /\ last'.op \in {"build_stateful", "build_state"}
                 /\ last'.state = state
                 /\ cells'[state] \notin DOMAIN nodes
                 /\ cells'[state] \in DOMAIN nodes'
                 /\ nodes'[cells'[state]].kind \in {"Rectangle", "Text"}
       /\ last'.op = "build_stateful" =>
            cells'[last'.state] = last'.rc /\ last'.rc \notin DOMAIN nodes
       /\ (last'.op \in {"borrow", "borrow_mut"} /\ ~Bound(cells, last'.state)) =>
            /\ aborted'
            /\ nodes' = nodes
            /\ last'.data \notin {nodes[a] : a \in DOMAIN nodes}]_vars

\* a borrow_mut on an unbound handle was rejected while another handle, bound
\* by build_stateful, had been written through
C16_Witness ==
    /\ aborted /\ last.op = "borrow_mut" /\ ~Bound(cells, last.state)
    /\ \E state \in DOMAIN cells :
          Bound(cells, state) /\ nodes[cells[state]].color = "MAGENTA"

\* the records the latest pass produced in the subtree of node id
RecordsBelow(id) == Subtree(id) \cap DOMAIN computed

\* C17 as stated: after a compute, every record produced in the subtree of a
\* later child of a stack has a z strictly greater than every record
\* produced in the subtree of an earlier child of that stack, nested stacks
\* included.
C17_StackPaintOrder ==
    Laid =>
      \A c \in Stacked : \A i \in Children(c), j \in Children(c) :
        i < j =>
          \A a \in RecordsBelow(Child(c, i)), b \in RecordsBelow(Child(c, j)) :
            computed[b].z > computed[a].z

\* the rows and columns the latest pass laid out
Split == {c \in Ids : nodes[c].kind \in {"Row", "Column"} /\ c \in DOMAIN args}
\* the position along the split axis the pass handed to node id
Along(c, id) == IF nodes[c].kind = "Row" THEN args[id].x ELSE args[id].y
\* what passes through a row or column unchanged
Across(c, id) ==
    IF nodes[c].kind = "Row"
    THEN <<args[id].y, args[id].height, args[id].z>>
    ELSE <<args[id].x, args[id].width, args[id].z>>
RECURSIVE SumFlex(_, _)
SumFlex(c, i) == IF i = 0 THEN 0 ELSE nodes[c].flex[i] + SumFlex(c, i - 1)

\* C18 as stated: child i of a row is placed at the row's x plus the sum of
\* the widths of the children before it, and gets the row's y, height and z;
\* a column likewise along y.
C18_ContiguousExact ==
    Laid =>
      \A c \in Split : \A i \in Children(c) :
        /\ Along(c, Child(c, i)) = Along(c, c) + SumExtents(c, i - 1)
        /\ Across(c, Child(c, i)) = Across(c, c)

\* the same with the sum of the widths taken in f64, left to right
C18_ContiguousF64 ==
    Laid =>
      \A c \in Split : \A i \in Children(c) :
        /\ Along(c, Child(c, i)) = FAdd(Along(c, c), FSumExtents(c, i - 1))
        /\ Across(c, Child(c, i)) = Across(c, c)

\* C18, amended: child i of a row (column) gets the row's y, height and z
\* (the column's x, width and z) unchanged, and is placed at the f64 value
\* x + p * (width / T), p the sum of the weights before it and T the sum of
\* all weights; where T > 0 that position is the row's x plus the sum of the
\* widths of the children before it within four roundoffs of width and one
\* of x (and the underflow of the operations).
C18_ContiguousWithinRounding ==
    Laid =>
      \A c \in Split : \A i \in Children(c) :
        LET T == Sum(nodes[c].flex)
            W == Extent(c, c)
            at == Along(c, Child(c, i))
        IN  /\ Across(c, Child(c, i)) = Across(c, c)
            /\ at = FAdd(Along(c, c), FMul(AsF64(SumFlex(c, i - 1)), FDiv(W, AsF64(T))))
            /\ T > 0 =>
                 Roundoff * Abs(at - (Along(c, c) + SumExtents(c, i - 1)))
                   <= 4 * Abs(W) + Abs(Along(c, c)) + (Roundoff \div 2) * (i + 2)

\* a row of three children whose third child does not start where the
\* widths of the first two end
C18_Witness ==
    /\ Laid
    /\ \E c \in Split :
          /\ nodes[c].kind = "Row" /\ Len(nodes[c].children) = 3
          /\ args[Child(c, 2)].x = args[c].x + args[Child(c, 1)].width
          /\ args[Child(c, 3)].x # args[c].x + SumExtents(c, 2)
          /\ args[Child(c, 3)].y = args[c].y

\* the leaves the latest pass called compute on
LeavesLaid == {id \in DOMAIN args : nodes[id].kind \in LeafKinds}
\* the render payload of a leaf
Payload(id) ==
    CASE nodes[id].kind = "Text" ->
           [kind |-> "Text", color |-> nodes[id].color, border_radius |-> 0,
            text |-> nodes[id].text]
      [] nodes[id].kind = "Rectangle" ->
           [kind |-> "Rectangle", color |-> nodes[id].color,
            border_radius |-> nodes[id].border_radius, text |-> ""]
      [] OTHER -> NoRender
\* the map after one more compute call on leaf id, at the box it was given
\* moved by (dx, dy), on the map of the latest pass
Again(id, dx, dy) ==
    Compute(nodes, id, args[id].x + dx, args[id].y + dy, args[id].z,
            args[id].width, args[id].height, [map |-> computed, args |-> args]).map
Moved(id, dx, dy) ==
    ComputedWidget(args[id].x + dx, args[id].y + dy, args[id].z,
                   args[id].width, args[id].height, Payload(id))

\* C19 as stated: the compute of a rectangle, a text or an empty inserts one
\* record under the leaf's id, holding the box it was called with and the
\* leaf's payload, and changes no other entry.
C19_LeafInsertsOne ==
    Laid =>
      \A id \in LeavesLaid :
        /\ id \in DOMAIN computed
        /\ computed[id] = Moved(id, 0, 0)
        /\ LET m == Again(id, Unit, 0)
           IN  /\ DOMAIN m = DOMAIN computed \cup {id}
               /\ m[id] = Moved(id, Unit, 0)
               /\ \A k \in DOMAIN computed \ {id} : m[k] = computed[k]

\* C19, amended: the compute of a rectangle or a text inserts one record
\* under the leaf's id, holding the box it was called with and the leaf's
\* payload, and changes no other entry; the compute of an empty inserts
\* nothing and leaves the map as it was.
C19_LeafInsertsOwn ==
    Laid =>
      \A id \in LeavesLaid :
        LET m == Again(id, Unit, 0)
        IN  IF nodes[id].kind = "Empty"
            THEN id \notin DOMAIN computed /\ m = computed
            ELSE /\ id \in DOMAIN computed
                 /\ computed[id] = Moved(id, 0, 0)
                 /\ DOMAIN m = DOMAIN computed
                 /\ m[id] = Moved(id, Unit, 0)
                 /\ \A k \in DOMAIN computed \ {id} : m[k] = computed[k]

\* a row of an empty, a text and a rectangle laid out: two records, none for
\* the empty
C19_Witness ==
    /\ Laid
    /\ nodes[root].kind = "Row"
    /\ {nodes[id].kind : id \in LeavesLaid} = LeafKinds
    /\ Cardinality(DOMAIN computed) = 2
    /\ \E id \in LeavesLaid : nodes[id].kind = "Empty" /\ args[id].width > 0

\* the gestures the latest pass laid out
GesturesLaid == Gestures \cap DOMAIN args

\* C20: the compute of a gesture computes its child with the x, y, z, width
\* and height the gesture was given, and the map then holds the gesture's
\* own record with that geometry and no render payload, whatever the child
\* inserted; a further compute call on the gesture at another box replaces
\* the record, and the record of a child that is a leaf.
C20_GestureRecord ==
    Laid =>
      \A g \in GesturesLaid :
        /\ Child(g, 1) \in DOMAIN args
        /\ args[Child(g, 1)] = args[g]
        /\ g \in DOMAIN computed
        /\ computed[g] = ComputedWidget(args[g].x, args[g].y, args[g].z,
                                        args[g].width, args[g].height, NoRender)
        /\ LET m == Again(g, Unit, Unit)
           IN  /\ m[g] = ComputedWidget(args[g].x + Unit, args[g].y + Unit, args[g].z,
                                        args[g].width, args[g].height, NoRender)
               /\ Child(g, 1) \in DOMAIN computed =>
                    m[Child(g, 1)] = [computed[Child(g, 1)] EXCEPT
                                        !.x = args[g].x + Unit, !.y = args[g].y + Unit]
               /\ DOMAIN m = DOMAIN computed

\* a gesture laid out away from the origin and above paint order 0, over a
\* rectangle that inserted its own record
C20_Witness ==
    /\ Laid
    /\ \E g \in GesturesLaid :
          /\ args[g].z > 0 /\ args[g].width > 0
          /\ Child(g, 1) \in DOMAIN computed
          /\ computed[Child(g, 1)].render.kind = "Rectangle"
          /\ computed[g].render = NoRender
    /\ \E g \in GesturesLaid : args[g].x > 0 /\ args[g].y > 0

\* the gestures reachable from the root
Reachable == Gestures \cap Subtree(root)

\* C21: once compute has run on the tree, the layout map holds an entry for
\* every gesture reachable from the root, whatever paddings, rows, columns,
\* stacks and gestures lie above it, and no dispatch against that map aborts
\* on a missing entry.
C21_GesturesHaveEntries ==
    args # <<>> =>
      /\ Reachable \subseteq DOMAIN computed
      /\ ~aborted

\* an event dispatched after a compute reached, without aborting, a gesture
\* below a padding, and the map of that compute holds a gesture that lies
\* inside another gesture
C21_Witness ==
    /\ Dispatched /\ args # <<>>
    /\ \E g \in Reachable : \E h \in Reachable \ {g} :
          h \in Subtree(g) /\ h \in DOMAIN computed /\ Visited(g)
    /\ \E c \in Ids : nodes[c].kind = "Padding"

\* C22: a dispatch that returns the event unconsumed returns the very event
\* it was given and the prior flag, has invoked no callback and has changed
\* no cell; this holds of the call on the root and of the dispatch of every
\* node below it, and a dispatch returns nothing but None or its own event.
C22_UnconsumedUnchanged ==
    Dispatched =>
      /\ last.e \in {None, last.event}
      /\ last.e # None =>
           /\ last.flag = last.prior
           /\ last.calls = <<>> /\ last.pressed = <<>>
           /\ nodes = last.before
      /\ \A k \in DOMAIN last.rets :
           LET r == last.rets[k]
           IN  /\ r.e \in {None, r.event}
               /\ r.e # None => r.flag = r.prior /\ r.ncalls = 0 /\ ~r.wrote

\* a MouseDown given with a true prior flag to a tree under a padding came
\* back unconsumed after a gesture with a click callback was offered it
C22_Witness ==
    /\ Dispatched /\ args # <<>>
    /\ last.event.type = "MouseDown" /\ last.prior
    /\ last.e = last.event
    /\ nodes[root].kind = "Padding"
    /\ \E g \in Gestures : Visited(g) /\ nodes[g].click_callback.reg

\* the rows that hold two buttons side by side, and a button's base colour:
\* the one its leave closure writes
ButtonRows == {c \in Ids : /\ nodes[c].kind = "Row" /\ Len(nodes[c].children) = 2
                            /\ Range(nodes[c].children) \subseteq ButtonGestures}
BaseOf(g) == nodes[g].leave_callback.color
\* every button of such a row that does not hold the pointer shows its base
\* colour
BaseOutside ==
    \A c \in ButtonRows : \A i \in Children(c) :
      ~Hit(Child(c, i), mouse_x, mouse_y) => nodes[RectOf(Child(c, i))].color = BaseOf(Child(c, i))

\* C23: with two buttons side by side in a row, a MouseMove chained to the
\* pointer position before it keeps every button that does not hold the
\* pointer at its base colour; a move from inside one button to inside the
\* other runs the leave callback of the button left and the enter callback
\* of the button entered, in either direction.
C23_LeaveAndEnterDelivered ==
    [][(last'.op = "dispatch" /\ last'.event.type = "MouseMove" /\ BaseOutside) =>
         /\ BaseOutside'
         /\ \A c \in ButtonRows : \A i \in Children(c), j \in Children(c) :
              ( /\ i # j
                /\ Hit(Child(c, i), mouse_x, mouse_y)
                /\ Hit(Child(c, j), mouse_x', mouse_y') ) =>
                  /\ \E k \in DOMAIN last'.calls :
                       last'.calls[k].id = Child(c, i) /\ last'.calls[k].cb = "leave_callback"
                  /\ \E k \in DOMAIN last'.calls :
                       last'.calls[k].id = Child(c, j) /\ last'.calls[k].cb = "enter_callback"]_vars

\* the nodes below gesture g: its background and everything under it
Below(g) == Subtree(Child(g, 1))

\* C24: a gesture never passes an event into its background: in no dispatch
\* pass is a node below a gesture dispatched to, and no callback of a gesture
\* (or button) that lies below another gesture is invoked.
C24_NothingBelowAGesture ==
    last.op = "dispatch" =>
      \A g \in Gestures :
        /\ \A n \in Below(g) : ~Visited(n)
        /\ CallsIn(Below(g)) = {}

\* a MouseDown inside the rectangle of a gesture with a click callback that
\* lies below a button: the button consumed it and ran its own callback
C24_Witness ==
    /\ Dispatched /\ last.event.type = "MouseDown"
    /\ \E g \in ButtonGestures : \E h \in Gestures \cap Below(g) :
          /\ Hit(h, last.event.x, last.event.y)
          /\ nodes[h].click_callback.reg
          /\ Visited(g) /\ RetOf(g).e = None
          /\ CallsOf(g) = <<CallOf(g, "click_callback", last.event.button)>>

\* C25 as stated: one dispatch call invokes at most one callback, it invokes
\* one if and only if it returns None, and a returned flag that differs from
\* the prior flag implies that the event was consumed.
C25_OneCallbackIffConsumed ==
    Dispatched =>
      /\ Len(last.calls) <= 1
      /\ Len(last.calls) = 1 <=> last.e = None
      /\ last.flag # last.prior => last.e = None

\* the callback slot of gesture g that the event of the latest call selects
SlotOf(g) ==
    CASE last.event.type = "MouseDown" -> "click_callback"
      [] last.event.type = "MouseUp" -> "release_callback"
      [] OTHER -> IF Hit(g, last.event.x, last.event.y) THEN "enter_callback"
                  ELSE "leave_callback"
\* the gestures whose dispatch consumed the event in the latest pass
Consumers == {g \in Gestures : Visited(g) /\ RetOf(g).e = None}

\* C25, amended: one dispatch call invokes at most one callback; if it
\* invokes one it returns None; it returns None exactly when one gesture
\* consumed the event, and then the callback of that gesture for this event
\* is invoked if it is registered and nothing is invoked if it is not; a
\* returned flag that differs from the prior flag implies consumption.
C25_AtMostOneCallback ==
    Dispatched =>
      /\ Len(last.calls) <= 1
      /\ Len(last.calls) = 1 => last.e = None
      /\ last.e = None <=> Consumers # {}
      /\ Cardinality(Consumers) <= 1
      /\ \A g \in Consumers :
           last.calls = IF nodes[g][SlotOf(g)].reg
                        THEN <<CallOf(g, SlotOf(g),
                                      IF last.event.type = "MouseMove" THEN 0
                                      ELSE last.event.button)>>
                        ELSE <<>>
      /\ last.flag # last.prior => last.e = None

\* a gesture without callbacks consumed a MouseDown inside its rectangle,
\* ahead of a sibling gesture with callbacks: None came back, nothing ran
C25_Witness ==
    /\ Dispatched /\ last.event.type = "MouseDown"
    /\ last.e = None /\ last.calls = <<>>
    /\ \E g \in Consumers : ~nodes[g].click_callback.reg
    /\ \E h \in Gestures : nodes[h].click_callback.reg

\* C26: a button keeps no record of being pressed.  On a MouseUp, a button
\* whose rectangle holds the point runs its release closure once, and with
\* it the user's pressed callback once with the event's button, whatever
\* was dispatched before; a button whose rectangle does not hold the point
\* runs nothing, also right after a MouseDown inside it; no other event
\* invokes the pressed callback.
C26_PressedOnReleaseInside ==
    Dispatched =>
      /\ last.event.type # "MouseUp" => last.pressed = <<>>
      /\ last.event.type = "MouseUp" =>
           \A g \in ButtonGestures :
             IF Visited(g) /\ Hit(g, last.event.x, last.event.y)
             THEN /\ CallsOf(g) = <<CallOf(g, "release_callback", last.event.button)>>
                  /\ last.pressed = IF nodes[g].release_callback.pressed
                                    THEN <<last.event.button>> ELSE <<>>
             ELSE CallsOf(g) = <<>>

\* a MouseUp of button 1 inside a button that showed its base colour, so no
\* press inside it came before, invoked the pressed callback with 1
C26_Witness ==
    /\ Dispatched /\ last.event.type = "MouseUp" /\ last.event.button = 1
    /\ \E g \in ButtonGestures :
          /\ Hit(g, last.event.x, last.event.y)
          /\ last.before[RectOf(g)].color = BaseOf(g)
          /\ nodes[g].release_callback.pressed
          /\ last.pressed = <<1>>

\* the tree holds one gesture, and it is a button
SingleButton == Cardinality(Gestures) = 1 /\ Gestures \subseteq ButtonGestures
TheButton == CHOOSE g \in Gestures : TRUE
\* the colour the cell of the single button holds (the buttons of one
\* gesture are built red, yellow, green), and whether its rectangle holds
\* the pointer
Shown == nodes[CellOf(TheButton)].color
PointerInside == Hit(TheButton, mouse_x, mouse_y)
\* the cell shows one of the three colours, and base exactly when the
\* pointer is outside the button
Settled ==
    /\ Shown \in {"RED", "YELLOW", "GREEN"}
    /\ Shown = Palette(Shown).base <=> ~PointerInside

\* C27: for a single button, the only gesture of the tree, the loop starts
\* with the pointer outside it and the base colour, and each pointer event
\* (a move chained to the pointer position, a press or a release at the
\* pointer position) keeps the cell at one of base, hover, active and at
\* base exactly when the pointer is outside the rectangle; the cell is at
\* active after an event only if that event was a MouseDown inside the
\* rectangle, or it was at active before and the event was no button event
\* inside the rectangle.
C27_SingleButtonColours ==
    /\ [][(SingleButton /\ last'.op = "dispatch" /\ Settled) =>
            /\ Settled'
            /\ Shown' = Palette(Shown').active =>
                 \/ last'.event.type = "MouseDown" /\ PointerInside'
                 \/ /\ Shown = Palette(Shown).active
                    /\ ~(last'.event.type = "MouseUp" /\ PointerInside')]_vars
    /\ []((SingleButton /\ last.op = "init") => (Settled /\ ~PointerInside))

\* the single button went back to its base colour on a move out of its
\* rectangle, having been pressed (active) just before
C27_Witness ==
    /\ SingleButton /\ nodes[root].kind = "Padding"
    /\ last.op = "dispatch" /\ last.event.type = "MouseMove"
    /\ ~PointerInside /\ Shown = "RED"
    /\ last.before[CellOf(TheButton)].color = "GREEN"

\* the nodes the latest pass laid out that have children
Parents == {p \in DOMAIN args : nodes[p].children # <<>>}
\* the box handed to node k lies within the box handed to node p
Within(k, p) ==
    /\ args[k].x >= args[p].x
    /\ args[k].y >= args[p].y
    /\ args[k].x + args[k].width <= args[p].x + args[p].width
    /\ args[k].y + args[k].height <= args[p].y + args[p].height

\* C28: after a layout pass at a non-negative width and height, the box of
\* every node lies within the box handed to its parent, and so within the
\* window, also where the insets of a padding exceed the box it was given.
C28_ChildWithinParent ==
    Laid => \A p \in Parents : \A i \in Children(p) : Within(Child(p, i), p)

\* the nodes from node n down to node g of its subtree, outermost first
RECURSIVE PathFrom(_, _)
PathFrom(n, g) ==
    IF n = g THEN <<g>>
    ELSE <<n>> \o PathFrom(Child(n, CHOOSE i \in Children(n) : g \in Subtree(Child(n, i))), g)
\* the nodes bound to a State handle
BoundNodes == Range(cells) \ {NoId}

\* C29: no dispatch pass meets a borrow conflict.  When a callback runs, the
\* borrows outstanding are the shared borrows of the nodes on the path from
\* the root to the gesture dispatched, and no others; no node bound to a
\* State handle is among them, so the exclusive borrow a button's closure
\* takes of its rectangle succeeds.
C29_NoBorrowConflict ==
    last.op = "dispatch" =>
      /\ ~last.conflict
      /\ \A k \in DOMAIN last.borrows :
           LET w == last.borrows[k]
           IN  /\ w.held = PathFrom(root, w.id)
               /\ Range(w.held) \cap BoundNodes = {}
               /\ w.cell \notin Range(w.held)

\* the closure of the second button of a row inside a column wrote its
\* rectangle while the column, the row and the button's gesture were
\* borrowed, after the first button had been dispatched to and returned
C29_Witness ==
    /\ Dispatched
    /\ \E k \in DOMAIN last.borrows :
          LET w == last.borrows[k]
          IN  /\ Len(w.held) = 3
              /\ w.cell \in BoundNodes
              /\ Len(last.visited) > 3
              /\ nodes[w.cell].color # last.before[w.cell].color

====
